---- MODULE Spec2Model ----
(***************************************************************************)
(* Stack Tracker Pro backend (src/backend/server.js, second server         *)
(* variant, lines 428-946): the historical price tables and their loader,  *)
(* the tiered historical price resolver, the nearest-date lookup and the   *)
(* live spot price cache of GET /api/spot-prices.                          *)
(*                                                                         *)
(* JavaScript values are records [t, v, s]: t is the type tag, v the       *)
(* value of a number in hundredths (2391.50 is 239150, the ratio 84.5 is   *)
(* 8450), s the text of a string.  Dates are day numbers; the key          *)
(* "YYYY-MM-DD" of day d parses to d * 86400000 ms (UTC midnight), and     *)
(* the lexicographic order of such keys is the order of the day numbers.   *)
(* Times of dates are kept in whole seconds (every one of them is a        *)
(* multiple of 1000 ms), which keeps 30 days within 32-bit integers.       *)
(***************************************************************************)
EXTENDS Integers, Sequences, FiniteSets, TLC

VARIABLES
    historicalGoldPrices,       \* server.js:440  date -> number
    historicalGoldSilverRatio,  \* server.js:441  date -> number
    historicalDataLoaded,       \* server.js:442
    loadPc,                     \* where loadHistoricalData is suspended
    goldWritten,                \* the dates the running load has assigned in
                                \* the gold table
    spotPriceCache,             \* server.js:433
    now,                        \* Date.now()
    spotPc,                     \* per request: where GET /api/spot-prices is suspended
    spotNow,                    \* per request: the handler's const now
    fetches,                    \* per request: upstream fetches issued
    ratioCache,                 \* calibrateRatios.js:16
    etfRatios,                  \* the rows of the table etf_ratios
    supabaseAvailable,          \* supabaseClient.js:16  supabase !== null
    calDay,                     \* the calendar day of new Date()
    cal,                        \* per call: the locals of calibrateRatios
    getPc,                      \* where getRatioForDate is suspended
    needPc,                     \* where needsCalibration is suspended
    res                         \* what the step just taken sent or returned

vars == <<historicalGoldPrices, historicalGoldSilverRatio, historicalDataLoaded,
          loadPc, goldWritten, spotPriceCache, now, spotPc, spotNow, fetches,
          ratioCache, etfRatios, supabaseAvailable, calDay, cal, getPc, needPc,
          res>>

histVars == <<historicalGoldPrices, historicalGoldSilverRatio,
              historicalDataLoaded, loadPc, goldWritten>>
spotVars == <<spotPriceCache, now, spotPc, spotNow, fetches>>
calVars == <<ratioCache, etfRatios, supabaseAvailable, calDay, cal, getPc,
             needPc>>

----------------------------------------------------------------------------
(* Bounds of the model *)

MaxFeedLen == 1      \* records in one gold feed, data rows in one ratio CSV
MaxTicks == 3        \* clock ticks the spot cache model runs for
MaxRequests == 2     \* GET /api/spot-prices requests that may overlap

----------------------------------------------------------------------------
(* JavaScript values *)

Num(n) == [t |-> "num", v |-> n, s |-> ""]
Str(x) == [t |-> "str", v |-> 0, s |-> x]
NaN == [t |-> "nan", v |-> 0, s |-> ""]
Undefined == [t |-> "undef", v |-> 0, s |-> ""]
Null == [t |-> "null", v |-> 0, s |-> ""]

\* ToBoolean: 0, NaN, "", null and undefined are falsy; an infinity and an
\* object are truthy.
Truthy(x) == \/ x.t = "num" /\ x.v # 0
             \/ x.t = "str" /\ x.s # ""
             \/ x.t \in {"inf", "quote", "date", "array"}

IsNumber(x) == x.t = "num"

\* The strings of the feeds that parseFloat reads as a number, in hundredths.
NumericStrings ==
    ("0" :> 0) @@ ("84.5" :> 8450) @@ ("79.9" :> 7990) @@ ("-3" :> -300)

\* parseFloat: a number is returned as it is, a string with a numeric prefix
\* as that number, anything else as NaN.
ParseFloat(x) ==
    IF x.t = "num" THEN x
    ELSE IF x.t = "str" /\ x.s \in DOMAIN NumericStrings
         THEN Num(NumericStrings[x.s])
         ELSE NaN

Abs(n) == IF n < 0 THEN -n ELSE n

\* parseFloat((a / b).toFixed(2)) for numbers a and b > 0, in hundredths:
\* toFixed rounds the magnitude to the nearest hundredth, the larger one
\* when two are equally near, and keeps the sign; NaN stays NaN.
DivToFixed2(a, b) ==
    IF a.t # "num" \/ b.t # "num" THEN NaN
    ELSE LET m == (2 * 100 * Abs(a.v) + b.v) \div (2 * b.v)
         IN  Num(IF a.v < 0 THEN -m ELSE m)

\* obj[key] of a date-keyed object: undefined when the key is absent.
Get(obj, key) == IF key \in DOMAIN obj THEN obj[key] ELSE Undefined

\* obj with obj[key] = value assigned.
Put(obj, key, value) ==
    [k \in DOMAIN obj \cup {key} |-> IF k = key THEN value ELSE obj[k]]

EmptyObj == [k \in {} |-> Undefined]

----------------------------------------------------------------------------
(* Dates *)

NoDate == 0 - 1                  \* a feed record without a date
DaySec == 24 * 60 * 60           \* 24 * 60 * 60 * 1000 ms
DateSec(d) == d * DaySec         \* new Date(d).getTime(), in seconds

GoldFeedDates == {0, 30}         \* the days the gold feed has records for
RatioFeedDates == {30, 61}       \* the days the ratio CSV has rows for
QueryDates == {0, 15, 30, 60, 61}

RECURSIVE SortedSeq(_)
\* Object.keys(obj).sort() for date keys: ascending.
SortedSeq(S) ==
    IF S = {} THEN << >>
    ELSE LET m == CHOOSE x \in S : \A y \in S : x <= y
         IN  <<m>> \o SortedSeq(S \ {m})

----------------------------------------------------------------------------
(* findNearestValue, server.js:589-611 *)

NotFound == [found |-> FALSE, date |-> NoDate, value |-> Undefined]

NearestWindowSec == 30 * DaySec  \* 30 * 24 * 60 * 60 * 1000 ms

RECURSIVE NearestScanSigned(_, _, _, _, _)
\* Variant of NearestScan: the distance without Math.abs, so the earliest
\* date counts as the nearest.
NearestScanSigned(dataObj, dates, target, i, closest) ==
    IF i > Len(dates) THEN closest
    ELSE LET date == dates[i]
             diff == DateSec(date) - target
             closer == \/ ~closest.found
                       \/ diff < DateSec(closest.date) - target
         IN  NearestScanSigned(dataObj, dates, target, i + 1,
                 IF closer
                 THEN [found |-> TRUE, date |-> date, value |-> dataObj[date]]
                 ELSE closest)

RECURSIVE NearestScanLastWins(_, _, _, _, _)
\* Variant of NearestScan: diff <= closestDiff, so of two keys equally far
\* the later one is kept.
NearestScanLastWins(dataObj, dates, target, i, closest) ==
    IF i > Len(dates) THEN closest
    ELSE LET date == dates[i]
             diff == Abs(DateSec(date) - target)
             closer == \/ ~closest.found
                       \/ diff <= Abs(DateSec(closest.date) - target)
         IN  NearestScanLastWins(dataObj, dates, target, i + 1,
                 IF closer
                 THEN [found |-> TRUE, date |-> date, value |-> dataObj[date]]
                 ELSE closest)

RECURSIVE NearestScan(_, _, _, _, _)
\* The for loop of findNearestValue from index i on: closest is the entry
\* kept so far, closestDiff its distance (closest.found = FALSE stands for
\* closestDiff = Infinity).
NearestScan(dataObj, dates, target, i, closest) ==
    IF i > Len(dates) THEN closest
    ELSE LET date == dates[i]
             diff == Abs(DateSec(date) - target)
             closer == \/ ~closest.found
                       \/ diff < Abs(DateSec(closest.date) - target)
         IN  NearestScan(dataObj, dates, target, i + 1,
                 IF closer
                 THEN [found |-> TRUE, date |-> date, value |-> dataObj[date]]
                 ELSE closest)

\* Variant of findNearestValue: the closest entry however far away it is.
findNearestValueNoWindow(dataObj, targetDate) ==
    LET dates == SortedSeq(DOMAIN dataObj)
        target == DateSec(targetDate)
    IN  IF Len(dates) = 0 THEN NotFound
        ELSE NearestScan(dataObj, dates, target, 1, NotFound)

findNearestValue(dataObj, targetDate) ==
    LET dates == SortedSeq(DOMAIN dataObj)
        target == DateSec(targetDate)
        closest == NearestScan(dataObj, dates, target, 1, NotFound)
    IN  IF Len(dates) = 0 THEN NotFound
        ELSE IF closest.found
                /\ Abs(DateSec(closest.date) - target) <= NearestWindowSec
             THEN closest
             ELSE NotFound

----------------------------------------------------------------------------
(* getHistoricalPrice, server.js:506-584 *)

Metals == {"gold", "silver"}

\* toLowerCase of the metal names of the requests.
ToLowerCase(text) == IF text = "GOLD" THEN "gold" ELSE text

\* (metal || 'silver').toLowerCase(); "" stands for an omitted metal.
MetalType(metal) == IF metal = "" THEN "silver" ELSE ToLowerCase(metal)

TypicalRatio == Num(8000)        \* the literal 80 of lines 544 and 569

\* A result: the price, the source tag, which note text, and the date the
\* note names (NoDate when it names none).
Result(price, source, note, noteDate) ==
    [price |-> price, source |-> source, note |-> note, noteDate |-> noteDate]

\* Variant of RatioToUse: 80 whatever ratio was found.
RatioToUseAlwaysTypical(nearestRatio) == TypicalRatio

\* Line 569: nearestRatio ? nearestRatio.value : 80
RatioToUse(nearestRatio) ==
    IF nearestRatio.found THEN nearestRatio.value ELSE TypicalRatio

\* Line 580: the current cache price of the metal.
FallbackPrice(metalType) ==
    IF metalType = "silver" THEN spotPriceCache.silver ELSE spotPriceCache.gold

getHistoricalPrice(date, metal) ==
    LET metalType == MetalType(metal)
        goldPrice == Get(historicalGoldPrices, date)
        ratio == Get(historicalGoldSilverRatio, date)
        nearestGold == findNearestValue(historicalGoldPrices, date)
        nearestRatio == findNearestValue(historicalGoldSilverRatio, date)
    IN  IF metalType = "gold" /\ Truthy(goldPrice)
        THEN Result(goldPrice, "exact", "exact daily price", NoDate)
        ELSE IF metalType = "silver" /\ Truthy(goldPrice) /\ Truthy(ratio)
        THEN Result(DivToFixed2(goldPrice, ratio), "exact",
                    "exact gold and ratio", NoDate)
        ELSE IF metalType = "silver" /\ Truthy(goldPrice) /\ nearestRatio.found
        THEN Result(DivToFixed2(goldPrice, nearestRatio.value), "interpolated",
                    "gold exact, ratio from", nearestRatio.date)
        ELSE IF metalType = "silver" /\ Truthy(goldPrice)
        THEN Result(DivToFixed2(goldPrice, TypicalRatio), "estimated",
                    "estimated ratio", NoDate)
        ELSE IF metalType = "gold" /\ nearestGold.found
        THEN Result(nearestGold.value, "nearest",
                    "nearest available date", nearestGold.date)
        ELSE IF metalType = "silver" /\ nearestGold.found
        THEN Result(DivToFixed2(nearestGold.value, RatioToUse(nearestRatio)),
                    "interpolated", "estimated from gold of", nearestGold.date)
        ELSE Result(FallbackPrice(metalType),
                    "fallback", "historical data unavailable", NoDate)

----------------------------------------------------------------------------
(* HTTP responses *)

\* No response is being sent.
NoResponse == [op |-> "none"]

\* A handler or callback runs in a turn of the event loop of its own, from
\* start or await to the next await or its end.  res holds the response a
\* turn has sent until the turn is over; the next turn starts after that.
NewTurn == res.op = "none"

\* The turn that sent a response is over.
EndTurn ==
    /\ res.op # "none"
    /\ res' = NoResponse
    /\ UNCHANGED <<histVars, spotVars, calVars>>

----------------------------------------------------------------------------
(* loadHistoricalData, server.js:448-500 *)

\* The price field of a record of the gold feed: JSON numbers, strings, or
\* no price at all.
GoldFeedPrices ==
    {Num(239150), Num(240000), Num(0 - 500), Str("0"), Str("abc")}

GoldRecords ==
    [date : GoldFeedDates, price : GoldFeedPrices]
        \cup {[date |-> NoDate, price |-> Num(239150)],
              [date |-> 0, price |-> Undefined]}

\* A line of the ratio CSV after split(','): parts is the number of fields,
\* date the trimmed first field (NoDate when empty), ratio the last field.
CsvRatios == {Str("84.5"), Str("79.9")}

CsvHeader == [parts |-> 2, date |-> NoDate, ratio |-> Str("ratio")]

CsvRows ==
    [parts : {2}, date : RatioFeedDates, ratio : CsvRatios]
        \cup {[parts |-> 2, date |-> 30, ratio |-> Str("abc")],
              [parts |-> 2, date |-> 30, ratio |-> Str("0")],
              [parts |-> 2, date |-> 30, ratio |-> Str("-3")],
              [parts |-> 2, date |-> NoDate, ratio |-> Str("84.5")],
              [parts |-> 1, date |-> NoDate, ratio |-> Str("")]}

SeqsUpTo(S, n) == UNION {[1..k -> S] : k \in 0..n}

GoldFeeds == SeqsUpTo(GoldRecords, MaxFeedLen)

\* The lines of a CSV text: a first line, which is the header or already a
\* data row, and the rows after it.
CsvTexts ==
    {<<first>> \o rows :
        first \in {CsvHeader, [parts |-> 2, date |-> 30, ratio |-> Str("84.5")]},
        rows \in SeqsUpTo(CsvRows, MaxFeedLen)}

RECURSIVE GoldForEach(_, _, _)
\* goldData.forEach of lines 458-462 from record i on.
GoldForEach(table, goldData, i) ==
    IF i > Len(goldData) THEN table
    ELSE LET record == goldData[i]
         IN  GoldForEach(
                 IF record.date # NoDate /\ Truthy(record.price)
                 THEN Put(table, record.date, ParseFloat(record.price))
                 ELSE table,
                 goldData, i + 1)

RECURSIVE RatioLoop(_, _, _)
\* The for loop of lines 476-485 from line i on (lines[1] here is lines[0]
\* of the code, so the code's i = 1 is 2).
RatioLoop(table, lines, i) ==
    IF i > Len(lines) THEN table
    ELSE LET parts == lines[i]
             date == parts.date
             ratio == ParseFloat(parts.ratio)
         IN  RatioLoop(
                 IF /\ parts.parts >= 2
                    /\ date # NoDate
                    /\ ratio.t = "num"
                    /\ ratio.v > 0
                 THEN Put(table, date, ratio)
                 ELSE table,
                 lines, i + 1)

\* setInterval fires (or the startup call runs): the gold fetch is issued.
LoadStart ==
    /\ NewTurn
    /\ loadPc = "idle"
    /\ loadPc' = "gold"
    /\ res' = NoResponse
    /\ UNCHANGED <<historicalGoldPrices, historicalGoldSilverRatio,
                   historicalDataLoaded, goldWritten, spotVars, calVars>>

\* The gold fetch or goldResponse.json() rejects: the outer catch.
GoldFetchThrows ==
    /\ NewTurn
    /\ loadPc = "gold"
    /\ historicalDataLoaded' = FALSE
    /\ loadPc' = "idle"
    /\ res' = NoResponse
    /\ UNCHANGED <<historicalGoldPrices, historicalGoldSilverRatio,
                   goldWritten, spotVars, calVars>>

\* The gold response is not ok: the gold table is left alone and the ratio
\* fetch is issued.
GoldNotOk ==
    /\ NewTurn
    /\ loadPc = "gold"
    /\ loadPc' = "ratio"
    /\ res' = NoResponse
    /\ UNCHANGED <<historicalGoldPrices, historicalGoldSilverRatio,
                   historicalDataLoaded, goldWritten, spotVars, calVars>>

\* The gold response is ok and parses: its records are merged into the gold
\* table and the ratio fetch is issued.
GoldLoaded(goldData) ==
    /\ NewTurn
    /\ loadPc = "gold"
    /\ historicalGoldPrices' = GoldForEach(historicalGoldPrices, goldData, 1)
    /\ goldWritten' = DOMAIN GoldForEach(EmptyObj, goldData, 1)
    /\ loadPc' = "ratio"
    /\ res' = NoResponse
    /\ UNCHANGED <<historicalGoldSilverRatio, historicalDataLoaded, spotVars, calVars>>

\* The ratio fetch or ratioResponse.text() rejects (inner catch), or the
\* ratio response is not ok.
RatioUnavailable ==
    /\ NewTurn
    /\ loadPc = "ratio"
    /\ historicalDataLoaded' = TRUE
    /\ goldWritten' = {}
    /\ loadPc' = "idle"
    /\ res' = NoResponse
    /\ UNCHANGED <<historicalGoldPrices, historicalGoldSilverRatio, spotVars, calVars>>

\* The ratio response is ok: its rows are merged into the ratio table.
RatioLoaded(lines) ==
    /\ NewTurn
    /\ loadPc = "ratio"
    /\ historicalGoldSilverRatio' = RatioLoop(historicalGoldSilverRatio, lines, 2)
    /\ historicalDataLoaded' = TRUE
    /\ goldWritten' = {}
    /\ loadPc' = "idle"
    /\ res' = NoResponse
    /\ UNCHANGED <<historicalGoldPrices, spotVars, calVars>>

----------------------------------------------------------------------------
(* GET /api/historical-spot, server.js:879-915, and POST
   /api/historical-spot/bulk, server.js:921-946 *)

\* A string that matches /^\d{4}-\d{2}-\d{2}$/ and names the day d; every
\* other string of the requests does not match.
DateStr(d) == [t |-> "date", v |-> d, s |-> ""]

MatchesDatePattern(x) == x.t = "date"

\* A JavaScript array.
Arr(items) == [t |-> "array", items |-> items]

\* The date of a GET request: missing, empty, malformed or well-formed.
DateParams ==
    {Undefined, Str(""), Str("2024-4-19")} \cup {DateStr(d) : d \in QueryDates}

\* The metal of a request: omitted, a name in some case, another name, or
\* (the parameter given twice, an array in the JSON body) an array.
MetalParams ==
    {Undefined, Str("gold"), Str("silver"), Str("GOLD"), Str("platinum"),
     Arr(<<Str("gold"), Str("silver")>>)}

\* (metal || 'silver'): the text toLowerCase is called on, "" for the default.
MetalText(metal) == IF Truthy(metal) THEN metal.s ELSE ""

\* (metal || 'silver').toLowerCase throws a TypeError unless it is a string.
LowerCaseThrows(metal) == Truthy(metal) /\ metal.t # "str"

\* A response without a price: status 400 of a handler, or what the error
\* handler of lines 949-955 sends for an exception, err.message included.
ErrorResponse(op, status, error) ==
    [op |-> op, status |-> status, success |-> FALSE, error |-> error,
     date |-> NoDate, metal |-> "none", price |-> Undefined,
     source |-> "none", note |-> "none", noteDate |-> NoDate,
     prices |-> EmptyObj]

\* The TypeError of calling toLowerCase on a value that has none, and the
\* Error the fileFilter of lines 412-419 passes to its callback. status is
\* err.status, 0 when the exception has none.
TypeErrorLowerCase ==
    [status |-> 0, message |-> "(metal || 'silver').toLowerCase is not a function"]
FileFilterError ==
    [status |-> 0, message |-> "Invalid file type. Allowed: JPEG, PNG, WebP, HEIC"]

\* The error handler of lines 949-955.
ErrorHandler(op, err) ==
    ErrorResponse(op,
                  IF err.status # 0 THEN err.status ELSE 500,
                  IF err.message # "" THEN err.message ELSE "An error occurred")

\* Lines 880-914.
HistoricalSpotResponse(date, metal) ==
    IF ~Truthy(date)
    THEN ErrorResponse("historical-spot", 400, "Date parameter required")
    ELSE IF ~MatchesDatePattern(date)
    THEN ErrorResponse("historical-spot", 400, "Invalid date format")
    ELSE IF LowerCaseThrows(metal)
    THEN ErrorHandler("historical-spot", TypeErrorLowerCase)
    ELSE IF MetalType(MetalText(metal)) \notin Metals
    THEN ErrorResponse("historical-spot", 400, "Metal must be silver or gold")
    ELSE LET metalType == MetalType(MetalText(metal))
             result == getHistoricalPrice(date.v, metalType)
         IN  [op |-> "historical-spot", status |-> 200, success |-> TRUE,
              error |-> "none",
              date |-> date.v, metal |-> metalType,
              price |-> result.price, source |-> result.source,
              note |-> result.note, noteDate |-> result.noteDate,
              prices |-> EmptyObj]

\* The request is kept with the response, for the properties.
HistoricalSpot(date, metal) ==
    /\ NewTurn
    /\ res' = HistoricalSpotResponse(date, metal)
                  @@ [request |-> [date |-> date, metal |-> metal]]
    /\ UNCHANGED <<histVars, spotVars, calVars>>

\* dates.slice(0, 100) of line 934.
BulkLimit == 100

MaxBulkLen == 2      \* entries of a short dates array

Min(a, b) == IF a < b THEN a ELSE b

\* The entries of a dates array: well-formed dates and a malformed one.
BulkItems == {DateStr(0), DateStr(60), Str("2024-4-19")}

\* BulkLimit - 1 well-formed dates of days of their own, the days after the
\* last day a request asks for.
PadBase == 61
Padding == [i \in 1..(BulkLimit - 1) |-> DateStr(PadBase + i)]

\* The dates of a bulk request: missing, not an array, a short array, or a
\* long one that reaches past the limit.
BulkDates ==
    {Undefined, Str("2024-04-19")}
        \cup {Arr(items) : items \in SeqsUpTo(BulkItems, MaxBulkLen)}
        \cup {Arr(Padding \o items) :
                 items \in {<<DateStr(0), DateStr(60)>>,
                            <<Str("2024-4-19"), DateStr(60)>>}}

\* Variant of Slice: the whole array.
SliceWhole(dates) == dates

\* dates.slice(0, 100), line 934.
Slice(dates) == SubSeq(dates, 1, Min(Len(dates), BulkLimit))

\* Lines 932-939: results after the loop over the slice. Each well-formed
\* entry assigns results[date]; an entry that fails the pattern assigns
\* nothing. getHistoricalPrice changes no state, so an entry met again
\* assigns the price it was given before.
BulkResults(dates, metalType) ==
    LET slice == Slice(dates)
        assigning == {i \in 1..Len(slice) : MatchesDatePattern(slice[i])}
    IN  [date \in {slice[i].v : i \in assigning} |->
            getHistoricalPrice(date, metalType).price]

\* Lines 922-945.
BulkResponse(dates, metal) ==
    IF ~Truthy(dates) \/ dates.t # "array"
    THEN ErrorResponse("historical-spot/bulk", 400, "dates array required")
    ELSE IF LowerCaseThrows(metal)
    THEN ErrorHandler("historical-spot/bulk", TypeErrorLowerCase)
    ELSE LET metalType == MetalType(MetalText(metal))
         IN  [op |-> "historical-spot/bulk", status |-> 200,
              success |-> TRUE, error |-> "none",
              date |-> NoDate, metal |-> metalType, price |-> Undefined,
              source |-> "none", note |-> "none", noteDate |-> NoDate,
              prices |-> BulkResults(dates.items, metalType)]

HistoricalSpotBulk(dates, metal) ==
    /\ NewTurn
    /\ res' = BulkResponse(dates, metal)
                  @@ [request |-> [dates |-> dates, metal |-> metal]]
    /\ UNCHANGED <<histVars, spotVars, calVars>>

----------------------------------------------------------------------------
(* GET /api/health, server.js:624-632 *)

\* Object.keys(obj).length
KeyCount(obj) == Cardinality(DOMAIN obj)

HealthResponse ==
    [op |-> "health", status |-> 200,
     historicalDataLoaded |-> historicalDataLoaded,
     goldRecords |-> KeyCount(historicalGoldPrices),
     ratioRecords |-> KeyCount(historicalGoldSilverRatio)]

Health ==
    /\ NewTurn
    /\ res' = HealthResponse
    /\ UNCHANGED <<histVars, spotVars, calVars>>

----------------------------------------------------------------------------
(* POST /api/scan-receipt, server.js:637-723, and POST /api/analyze-stack,
   server.js:729-805 *)

OcrEndpoints == {"scan-receipt", "analyze-stack"}

\* What multer makes of the upload: no file, a file the fileFilter refuses,
\* a file.
Uploads == {"none", "refused", "file"}

\* What the vision call gives: a rejection, a first content block that is
\* not text, a text that is not JSON, the JSON text null, a JSON object.
VisionOutcomes == {"rejects", "not text", "not json", "json null", "json object"}

\* The error text of the catch of lines 716-722 and 798-804.
CouldNotAnalyze(endpoint) ==
    IF endpoint = "scan-receipt"
    THEN "Could not analyze receipt. Please try again or enter manually."
    ELSE "Could not analyze stack photo. Please try again."

\* Whether the try block throws: the call rejects, the block is not text
\* (line 694 throws; content.text.trim() of line 782 throws), JSON.parse
\* throws, or Object.keys(null) of line 712 throws.
TryThrows(endpoint, vision) ==
    \/ vision \in {"rejects", "not text", "not json"}
    \/ vision = "json null" /\ endpoint = "scan-receipt"

OcrResponse(endpoint, upload, vision) ==
    IF upload = "refused"
    THEN ErrorHandler(endpoint, FileFilterError)
    ELSE IF upload = "none"
    THEN ErrorResponse(endpoint, 400, "No image provided")
    ELSE IF TryThrows(endpoint, vision)
    THEN ErrorResponse(endpoint, 500, CouldNotAnalyze(endpoint))
    ELSE [op |-> endpoint, status |-> 200, success |-> TRUE,
          error |-> "none", data |-> vision]

Ocr(endpoint, upload, vision) ==
    /\ NewTurn
    /\ res' = OcrResponse(endpoint, upload, vision)
                  @@ [request |-> [upload |-> upload, vision |-> vision]]
    /\ UNCHANGED <<histVars, spotVars, calVars>>

----------------------------------------------------------------------------
(* The spot price cache, server.js:433-437 *)

SeedCache == [silver |-> Num(3050), gold |-> Num(265000), timestamp |-> Null]

CacheTtlMs == 5 * 60 * 1000      \* line 814
FetchTimeoutMs == 5 * 1000       \* line 827: setTimeout(..., 5000)

\* The clock is read at multiples of half the cache lifetime, so a cache is
\* seen at the ages 0, 2.5, 5 and 7.5 minutes.
TickMs == CacheTtlMs \div 2

Requests == 1..MaxRequests

----------------------------------------------------------------------------
(* GET /api/spot-prices, server.js:811-873 *)

\* The body of an ok upstream answer: an array of {metal, price} entries or
\* an object {silver, gold}; silver and gold are the prices it carries
\* (undefined when the entry or field is missing).  The body null makes
\* prices.silver throw.
UpstreamBodies ==
    [shape : {"array", "object"},
     silver : {Num(3120), Num(0), Undefined},
     gold : {Num(271000), Undefined}]
        \cup {[shape |-> "null", silver |-> Undefined, gold |-> Undefined]}

\* What the upstream call of a request gave: no call, a failure of the given
\* kind, or a body.  Responses carry it as the field upstream, which is not
\* part of the JSON the client gets.
NoBody == [shape |-> "none", silver |-> Undefined, gold |-> Undefined]
Outcome(kind, body) == [kind |-> kind, body |-> body]

\* x || null
OrNull(x) == IF Truthy(x) THEN x ELSE Null

\* Lines 815-821: the answer from a fresh cache.
CachedResponse(r) ==
    [op |-> "spot-prices", req |-> r, status |-> 200, success |-> TRUE,
     silver |-> spotPriceCache.silver, gold |-> spotPriceCache.gold,
     timestamp |-> spotPriceCache.timestamp.v,
     cached |-> "true", note |-> "none",
     upstream |-> Outcome("not called", NoBody)]

\* Lines 852-857: the answer after a successful fetch; it has no cached field.
FreshResponse(r, silver, gold, prices) ==
    [op |-> "spot-prices", req |-> r, status |-> 200, success |-> TRUE,
     silver |-> silver, gold |-> gold, timestamp |-> now,
     cached |-> "absent", note |-> "none",
     upstream |-> Outcome("body", prices)]

\* Variant of FallbackResponse: the hardcoded defaults instead of the cache.
FallbackResponseFromSeed(r, outcome) ==
    [op |-> "spot-prices", req |-> r, status |-> 200, success |-> TRUE,
     silver |-> SeedCache.silver, gold |-> SeedCache.gold,
     timestamp |-> now,
     cached |-> "true", note |-> "live API temporarily unavailable",
     upstream |-> outcome]

\* Lines 865-872: the answer from the cache as it is when the fetch gave
\* nothing usable.
FallbackResponse(r, outcome) ==
    [op |-> "spot-prices", req |-> r, status |-> 200, success |-> TRUE,
     silver |-> spotPriceCache.silver, gold |-> spotPriceCache.gold,
     timestamp |-> now,
     cached |-> "true", note |-> "live API temporarily unavailable",
     upstream |-> outcome]

\* Variant of CacheFresh: a cache of exactly five minutes still counts.
CacheFreshInclusive(at) ==
    /\ Truthy(spotPriceCache.timestamp)
    /\ at - spotPriceCache.timestamp.v <= CacheTtlMs

\* Line 814: the cache has a timestamp and is younger than five minutes.
CacheFresh(at) ==
    /\ Truthy(spotPriceCache.timestamp)
    /\ at - spotPriceCache.timestamp.v < CacheTtlMs

\* Variant of NewCache: stamped with the time of the answer.
NewCacheStampedAtAnswer(r, silver, gold) ==
    [silver |-> silver, gold |-> gold, timestamp |-> Num(now)]

\* Line 851: { silver, gold, timestamp: now }, now being the handler's const
\* of line 813.
NewCache(r, silver, gold) ==
    [silver |-> silver, gold |-> gold, timestamp |-> Num(spotNow[r])]

\* The handler up to its first await: answer from a fresh cache, or arm the
\* abort timer and issue the upstream fetch.
SpotStart(r) ==
    /\ NewTurn
    /\ spotPc[r] = "idle"
    /\ IF CacheFresh(now)
       THEN /\ res' = CachedResponse(r)
            /\ fetches' = [fetches EXCEPT ![r] = 0]
            /\ UNCHANGED spotPc
       ELSE /\ spotPc' = [spotPc EXCEPT ![r] = "fetch"]
            /\ fetches' = [fetches EXCEPT ![r] = 1]
            /\ res' = NoResponse
    /\ spotNow' = [spotNow EXCEPT ![r] = now]
    /\ UNCHANGED <<histVars, calVars, spotPriceCache, now>>

\* The request ends with the fallback answer.
Fallback(r, outcome) ==
    /\ spotPc' = [spotPc EXCEPT ![r] = "idle"]
    /\ res' = FallbackResponse(r, outcome)
    /\ UNCHANGED <<histVars, calVars, spotPriceCache, now, spotNow, fetches>>

\* The fetch resolves before the abort timer fires; the timer is cleared.
\* An ok response is read as JSON next, any other one falls through.
FetchResolved(r, ok) ==
    /\ NewTurn
    /\ spotPc[r] = "fetch"
    /\ now - spotNow[r] < FetchTimeoutMs
    /\ IF ok
       THEN /\ spotPc' = [spotPc EXCEPT ![r] = "json"]
            /\ res' = NoResponse
            /\ UNCHANGED <<histVars, calVars, spotPriceCache, now, spotNow, fetches>>
       ELSE Fallback(r, Outcome("not ok", NoBody))

\* The fetch rejects before the abort timer fires: the catch of line 860.
FetchRejected(r) ==
    /\ NewTurn
    /\ spotPc[r] = "fetch"
    /\ now - spotNow[r] < FetchTimeoutMs
    /\ Fallback(r, Outcome("rejected", NoBody))

\* The abort timer fires while the fetch is pending: the fetch rejects.
FetchTimedOut(r) ==
    /\ NewTurn
    /\ spotPc[r] = "fetch"
    /\ now - spotNow[r] >= FetchTimeoutMs
    /\ Fallback(r, Outcome("timeout", NoBody))

\* response.json() resolves with the body prices: lines 837-858.
JsonResolved(r, prices) ==
    LET silver == OrNull(prices.silver)
        gold == OrNull(prices.gold)
    IN  /\ NewTurn
        /\ spotPc[r] = "json"
        /\ IF prices.shape # "null" /\ Truthy(silver) /\ Truthy(gold)
           THEN /\ spotPriceCache' = NewCache(r, silver, gold)
                /\ spotPc' = [spotPc EXCEPT ![r] = "idle"]
                /\ res' = FreshResponse(r, silver, gold, prices)
                /\ UNCHANGED <<histVars, calVars, now, spotNow, fetches>>
           ELSE Fallback(r, Outcome("body", prices))

\* response.json() rejects (the body is not JSON): the catch of line 860.
JsonRejected(r) ==
    /\ NewTurn
    /\ spotPc[r] = "json"
    /\ Fallback(r, Outcome("not json", NoBody))

----------------------------------------------------------------------------
(* GET /api/spot-prices of the first server variant, server.js:304-323: no
   cache and no timeout; whatever fails is answered with status 500 *)

SimpleOutcomes ==
    {Outcome("rejected", NoBody), Outcome("not json", NoBody)}
        \cup {Outcome("body", prices) : prices \in UpstreamBodies}

\* Lines 311-316: prices.silver of an array is undefined.
SimpleField(prices, field) ==
    IF prices.shape = "object" THEN OrNull(prices[field]) ELSE Null

SimpleResponse(outcome) ==
    IF outcome.kind = "body" /\ outcome.body.shape # "null"
    THEN [op |-> "spot-prices-simple", status |-> 200, success |-> TRUE,
          silver |-> SimpleField(outcome.body, "silver"),
          gold |-> SimpleField(outcome.body, "gold"),
          note |-> "none", upstream |-> outcome]
    ELSE [op |-> "spot-prices-simple", status |-> 500, success |-> FALSE,
          silver |-> Undefined, gold |-> Undefined,
          note |-> "none", upstream |-> outcome]

\* The handler holds no state between its awaits, so the request is one step.
SpotPricesSimple(outcome) ==
    /\ NewTurn
    /\ res' = SimpleResponse(outcome)
    /\ UNCHANGED <<histVars, spotVars, calVars>>

\* A minute passes.
Tick ==
    /\ NewTurn
    /\ now < (MaxTicks + 1) * TickMs
    /\ now' = now + TickMs
    /\ res' = NoResponse
    /\ UNCHANGED <<histVars, calVars, spotPriceCache, spotPc, spotNow, fetches>>

----------------------------------------------------------------------------
(* Initial states *)

InitSpotIdle ==
    /\ now = TickMs
    /\ spotPc = [r \in Requests |-> "idle"]
    /\ spotNow = [r \in Requests |-> 0]
    /\ fetches = [r \in Requests |-> 0]

\* After the module is loaded: empty tables, the startup call of
\* loadHistoricalData suspended at its gold fetch.
InitHist ==
    /\ historicalGoldPrices = EmptyObj
    /\ historicalGoldSilverRatio = EmptyObj
    /\ historicalDataLoaded = FALSE
    /\ loadPc = "gold"
    /\ goldWritten = {}
    /\ res = NoResponse

----------------------------------------------------------------------------
(* ETF ratio calibration, services/calibrateRatios.js.  Ratios are numbers *)
(* in ten-thousandths (0.9213 is 9213), prices and spots in hundredths.    *)
(* The table etf_ratios is the set of its rows; calendar days are day      *)
(* numbers, as the dates of the historical tables are.                     *)

MaxCalls == 2      \* calibrateRatios calls that may overlap
MaxDay == 1        \* calendar days that pass

Calls == 1..MaxCalls

Infinity(sign) == [t |-> "inf", v |-> sign, s |-> ""]

\* typeof x === 'number'
IsJsNumber(x) == x.t \in {"num", "nan", "inf"}

Sign(n) == IF n < 0 THEN 0 - 1 ELSE 1

\* etfPrice / spotPrice of lines 45-46, in ten-thousandths.
Quot(etfPrice, spotPrice) ==
    IF ~(IsNumber(etfPrice) /\ IsNumber(spotPrice)) THEN NaN
    ELSE IF spotPrice.v = 0
         THEN IF etfPrice.v = 0 THEN NaN ELSE Infinity(Sign(etfPrice.v))
         ELSE Num(Sign(etfPrice.v) * Sign(spotPrice.v)
                  * ((Abs(etfPrice.v) * 10000) \div Abs(spotPrice.v)))

\* The defaults that etfPrices.js exports.
DEFAULT_SLV_RATIO == Num(9200)
DEFAULT_GLD_RATIO == Num(920)

\* Lines 16-20; the date null is NoDate.
InitialRatioCache ==
    [date |-> NoDate, slvRatio |-> DEFAULT_SLV_RATIO,
     gldRatio |-> DEFAULT_GLD_RATIO]

\* What getCurrentETFQuotes resolves with: per fund a quote with its price,
\* or nothing.
Quote(price) == [t |-> "quote", price |-> Num(price)]
EtfQuotes ==
    {[slv |-> Quote(2810), gld |-> Quote(24690)],
     [slv |-> Null, gld |-> Quote(24690)],
     [slv |-> Quote(2810), gld |-> Null]}

\* The spot prices a caller passes: gold and silver as the spot cache has
\* them, a zero and a negative price, silver missing.
SpotArgs ==
    {[goldSpot |-> Num(265000), silverSpot |-> Num(3050)],
     [goldSpot |-> Num(0), silverSpot |-> Num(0 - 3050)],
     [goldSpot |-> Num(265000), silverSpot |-> Undefined]}

\* Line 35.
QuoteMissing(quotes) == ~Truthy(quotes.slv) \/ ~Truthy(quotes.gld)

IdleCall ==
    [pc |-> "idle", goldSpot |-> Undefined, silverSpot |-> Undefined,
     slvPrice |-> Undefined, gldPrice |-> Undefined,
     slvRatio |-> Undefined, gldRatio |-> Undefined, today |-> NoDate,
     quotes |-> Undefined, cacheWritten |-> FALSE, rowWritten |-> FALSE,
     rowReplaced |-> FALSE]

\* Lines 40-48: the locals once both quotes are there.
WithRatios(call, quotes) ==
    [call EXCEPT !.slvPrice = quotes.slv.price,
                 !.gldPrice = quotes.gld.price,
                 !.slvRatio = Quot(quotes.slv.price, call.silverSpot),
                 !.gldRatio = Quot(quotes.gld.price, call.goldSpot),
                 !.today = calDay]

\* Variant of CacheAfterQuotes: the cache is written before the quotes are
\* looked at.
CacheAfterQuotesUnchecked(call, quotes) ==
    [date |-> calDay,
     slvRatio |-> IF ~Truthy(quotes.slv) THEN NaN
                  ELSE Quot(quotes.slv.price, call.silverSpot),
     gldRatio |-> IF ~Truthy(quotes.gld) THEN NaN
                  ELSE Quot(quotes.gld.price, call.goldSpot)]

\* Lines 35-55: the cache after the quotes have arrived.
CacheAfterQuotes(call, quotes) ==
    IF QuoteMissing(quotes) THEN ratioCache
    ELSE [date |-> calDay,
          slvRatio |-> Quot(quotes.slv.price, call.silverSpot),
          gldRatio |-> Quot(quotes.gld.price, call.goldSpot)]

\* JSON.stringify of a number: NaN and Infinity become null.
JsonNumber(x) == IF IsNumber(x) THEN x ELSE Null

\* Lines 61-70: the row the upsert sends.
RatioRow(call) ==
    [date |-> call.today,
     slv_ratio |-> JsonNumber(call.slvRatio),
     gld_ratio |-> JsonNumber(call.gldRatio),
     slv_price |-> JsonNumber(call.slvPrice),
     gld_price |-> JsonNumber(call.gldPrice),
     gold_spot |-> JsonNumber(call.goldSpot),
     silver_spot |-> JsonNumber(call.silverSpot),
     updated_at |-> call.today]

\* Variant of Upsert: a plain insert.
UpsertAsInsert(rows, row) == rows \cup {row}

\* Lines 59-70: upsert with onConflict 'date'.
Upsert(rows, row) == {r \in rows : r.date # row.date} \cup {row}

\* Lines 77-79: toFixed of a spot price that is not a number throws.
LogThrows(call) == ~(IsJsNumber(call.goldSpot) /\ IsJsNumber(call.silverSpot))

\* What a call returns, with the locals it ends with; cacheWritten and
\* rowWritten tell whether the call has changed the cache and the table,
\* rowReplaced whether its row has taken the place of another one.
Returned(c, value, why, call) ==
    [op |-> "calibrateRatios", call |-> c, value |-> value, why |-> why,
     locals |-> call]

\* Lines 77-85: the logging and the return.
CalReturn(c, call) ==
    IF LogThrows(call)
    THEN Returned(c, Null, "log threw", call)
    ELSE Returned(c, [slvRatio |-> call.slvRatio, gldRatio |-> call.gldRatio,
                      slvPrice |-> call.slvPrice, gldPrice |-> call.gldPrice],
                  "done", call)

\* calibrateRatios is called: it awaits the quotes.  The call is followed in
\* the first free place of cal.
CalStart(c, goldSpot, silverSpot) ==
    /\ NewTurn
    /\ cal[c].pc = "idle"
    /\ \A k \in 1..(c - 1) : cal[k].pc # "idle"
    /\ cal' = [cal EXCEPT ![c] = [IdleCall EXCEPT !.pc = "quotes",
                                                  !.goldSpot = goldSpot,
                                                  !.silverSpot = silverSpot]]
    /\ res' = NoResponse
    /\ UNCHANGED <<histVars, spotVars, ratioCache, etfRatios,
                   supabaseAvailable, calDay, getPc, needPc>>

\* getCurrentETFQuotes rejects: the catch of line 82.
CalQuotesThrow(c) ==
    /\ NewTurn
    /\ cal[c].pc = "quotes"
    /\ res' = Returned(c, Null, "quotes threw", cal[c])
    /\ cal' = [cal EXCEPT ![c] = IdleCall]
    /\ UNCHANGED <<histVars, spotVars, ratioCache, etfRatios,
                   supabaseAvailable, calDay, getPc, needPc>>

\* The quotes arrive: lines 35-58, and 77-85 when there is no storage.
CalQuotes(c, quotes) ==
    LET newCache == CacheAfterQuotes(cal[c], quotes)
        seen == [cal[c] EXCEPT !.quotes = quotes,
                               !.cacheWritten = (newCache # ratioCache)]
        call == WithRatios(seen, quotes)
    IN  /\ NewTurn
        /\ cal[c].pc = "quotes"
        /\ ratioCache' = newCache
        /\ IF QuoteMissing(quotes)
           THEN /\ res' = Returned(c, Null, "quote missing", seen)
                /\ cal' = [cal EXCEPT ![c] = IdleCall]
           ELSE IF supabaseAvailable
           THEN /\ cal' = [cal EXCEPT ![c] = [call EXCEPT !.pc = "upsert"]]
                /\ res' = NoResponse
           ELSE /\ res' = CalReturn(c, call)
                /\ cal' = [cal EXCEPT ![c] = IdleCall]
        /\ UNCHANGED <<histVars, spotVars, etfRatios, supabaseAvailable,
                       calDay, getPc, needPc>>

\* The upsert comes back: the row has reached the table or not, and the
\* client resolves without error, resolves with an error, or rejects.
UpsertResults == {"ok", "error", "throws"}

CalUpsertDone(c, applied, result) ==
    LET newRows == IF applied THEN Upsert(etfRatios, RatioRow(cal[c]))
                   ELSE etfRatios
        call == [cal[c] EXCEPT
                    !.rowWritten = (newRows # etfRatios),
                    !.rowReplaced = (\E r \in etfRatios \ newRows :
                                        r.date = cal[c].today)]
    IN  /\ NewTurn
        /\ cal[c].pc = "upsert"
        /\ result = "ok" => applied
        /\ etfRatios' = newRows
        /\ res' = IF result = "throws"
                  THEN Returned(c, Null, "upsert threw", call)
                  ELSE CalReturn(c, call)
        /\ cal' = [cal EXCEPT ![c] = IdleCall]
        /\ UNCHANGED <<histVars, spotVars, ratioCache, supabaseAvailable,
                       calDay, getPc, needPc>>

\* Midnight (UTC) passes.
DayPasses ==
    /\ NewTurn
    /\ calDay < MaxDay
    /\ calDay' = calDay + 1
    /\ res' = NoResponse
    /\ UNCHANGED <<histVars, spotVars, ratioCache, etfRatios,
                   supabaseAvailable, cal, getPc, needPc>>

----------------------------------------------------------------------------
(* getRatioForDate, calibrateRatios.js:95-132 *)

RatioQueryDays == 0..MaxDay

\* Lines 108-114: the most recent row on or before the day, if there is one.
RowsOnOrBefore(rows, day) == {r \in rows : r.date <= day}

LatestRow(rows) == CHOOSE r \in rows : \A q \in rows : q.date <= r.date

\* data of a query that matched nothing.
NoRow == [date |-> NoDate]

\* Variant of SelectRow: the most recent row of all.
SelectRowIgnoringDay(rows, day) ==
    IF rows = {} THEN NoRow ELSE LatestRow(rows)

SelectRow(rows, day) ==
    IF RowsOnOrBefore(rows, day) = {} THEN NoRow
    ELSE LatestRow(RowsOnOrBefore(rows, day))

\* parseFloat of a stored ratio: a number as it is, null as NaN.
ParseStored(x) == IF IsNumber(x) THEN x ELSE NaN

Ratios(slv, gld) == [slv_ratio |-> slv, gld_ratio |-> gld]

DefaultRatios == Ratios(DEFAULT_SLV_RATIO, DEFAULT_GLD_RATIO)

RatioAnswer(day, value, awaited, queryOk) ==
    [op |-> "getRatioForDate", day |-> day, value |-> value,
     awaited |-> awaited, queryOk |-> queryOk]

\* Lines 97-105 and 128-131: the call up to the query.  The lookups change
\* no state, so one of them is followed at a time.
GetRatioStart(day) ==
    /\ NewTurn
    /\ getPc.pc = "idle"
    /\ needPc.pc = "idle"
    /\ IF ratioCache.date = day
       THEN /\ res' = RatioAnswer(day, Ratios(ratioCache.slvRatio,
                                              ratioCache.gldRatio),
                                  FALSE, FALSE)
            /\ UNCHANGED getPc
       ELSE IF supabaseAvailable
       THEN /\ getPc' = [pc |-> "query", day |-> day]
            /\ res' = NoResponse
       ELSE /\ res' = RatioAnswer(day, DefaultRatios, FALSE, FALSE)
            /\ UNCHANGED getPc
    /\ UNCHANGED <<histVars, spotVars, ratioCache, etfRatios,
                   supabaseAvailable, calDay, cal, needPc>>

\* Lines 108-125: the query comes back with the row, with an error (also
\* when no row matches) or rejects.
GetRatioDone(queryOk) ==
    LET row == SelectRow(etfRatios, getPc.day)
    IN  /\ NewTurn
        /\ getPc.pc = "query"
        /\ res' = IF queryOk /\ row # NoRow
                  THEN RatioAnswer(getPc.day,
                                   Ratios(ParseStored(row.slv_ratio),
                                          ParseStored(row.gld_ratio)),
                                   TRUE, TRUE)
                  ELSE RatioAnswer(getPc.day, DefaultRatios, TRUE, queryOk)
        /\ getPc' = [pc |-> "idle", day |-> NoDate]
        /\ UNCHANGED <<histVars, spotVars, ratioCache, etfRatios,
                       supabaseAvailable, calDay, cal, needPc>>

----------------------------------------------------------------------------
(* getLastCalibrationDate and needsCalibration, calibrateRatios.js:138-171 *)

\* lastDate null is NoDate.
NeedsAnswer(today, lastDate, awaited, queryOk) ==
    [op |-> "needsCalibration", today |-> today, lastDate |-> lastDate,
     value |-> (lastDate # today), awaited |-> awaited, queryOk |-> queryOk]

\* Lines 168-169 and 140-144: today is read, then the cache is looked at.
NeedsStart ==
    /\ NewTurn
    /\ needPc.pc = "idle"
    /\ getPc.pc = "idle"
    /\ IF ratioCache.date # NoDate
       THEN /\ res' = NeedsAnswer(calDay, ratioCache.date, FALSE, FALSE)
            /\ UNCHANGED needPc
       ELSE IF supabaseAvailable
       THEN /\ needPc' = [pc |-> "query", today |-> calDay]
            /\ res' = NoResponse
       ELSE /\ res' = NeedsAnswer(calDay, NoDate, FALSE, FALSE)
            /\ UNCHANGED needPc
    /\ UNCHANGED <<histVars, spotVars, ratioCache, etfRatios,
                   supabaseAvailable, calDay, cal, getPc>>

\* Lines 146-161 and 170: the query for the latest date comes back.
NeedsDone(queryOk) ==
    /\ NewTurn
    /\ needPc.pc = "query"
    /\ res' = IF queryOk /\ etfRatios # {}
              THEN NeedsAnswer(needPc.today, LatestRow(etfRatios).date,
                               TRUE, TRUE)
              ELSE NeedsAnswer(needPc.today, NoDate, TRUE, queryOk)
    /\ needPc' = [pc |-> "idle", today |-> NoDate]
    /\ UNCHANGED <<histVars, spotVars, ratioCache, etfRatios,
                   supabaseAvailable, calDay, cal, getPc>>

\* The process is restarted: the module state is as after loading, what
\* was in progress is gone, the table stays.
Restart ==
    /\ NewTurn
    /\ ratioCache' = InitialRatioCache
    /\ cal' = [c \in Calls |-> IdleCall]
    /\ getPc' = [pc |-> "idle", day |-> NoDate]
    /\ needPc' = [pc |-> "idle", today |-> NoDate]
    /\ supabaseAvailable' \in BOOLEAN
    /\ res' = NoResponse
    /\ UNCHANGED <<histVars, spotVars, etfRatios, calDay>>

InitCal ==
    /\ ratioCache = InitialRatioCache
    /\ etfRatios = {}
    /\ calDay = 0
    /\ cal = [c \in Calls |-> IdleCall]
    /\ getPc = [pc |-> "idle", day |-> NoDate]
    /\ needPc = [pc |-> "idle", today |-> NoDate]

----------------------------------------------------------------------------
(* SpecCal: calibrateRatios calls that overlap, within a day and across    *)
(* restarts.  SpecRatio: calibrations that follow one another over the     *)
(* days and across restarts, with the lookups getRatioForDate and          *)
(* needsCalibration.                                                       *)

InitCalibration ==
    /\ InitHist
    /\ InitSpotIdle
    /\ spotPriceCache = SeedCache
    /\ InitCal
    /\ supabaseAvailable \in BOOLEAN

CalStep(c) ==
    \/ \E args \in SpotArgs : CalStart(c, args.goldSpot, args.silverSpot)
    \/ CalQuotesThrow(c)
    \/ \E quotes \in EtfQuotes : CalQuotes(c, quotes)
    \/ \E applied \in BOOLEAN, result \in UpsertResults :
          CalUpsertDone(c, applied, result)

NextCal ==
    \/ \E c \in Calls : CalStep(c)
    \/ Restart
    \/ EndTurn

SpecCal == InitCalibration /\ [][NextCal]_vars

NextRatio ==
    \/ CalStep(1)
    \/ \E day \in RatioQueryDays : GetRatioStart(day)
    \/ \E queryOk \in BOOLEAN : GetRatioDone(queryOk)
    \/ NeedsStart
    \/ \E queryOk \in BOOLEAN : NeedsDone(queryOk)
    \/ DayPasses
    \/ Restart
    \/ EndTurn

SpecRatio == InitCalibration /\ [][NextRatio]_vars

\* SpecOverlap: calibrateRatios calls that overlap on one day with nothing
\* failing: the spot prices passed are positive numbers, both quotes
\* arrive, storage is configured and every upsert is applied without error.
GoodSpotArgs ==
    {[goldSpot |-> Num(265000), silverSpot |-> Num(3050)],
     [goldSpot |-> Num(271000), silverSpot |-> Num(3120)]}

BothQuotes == [slv |-> Quote(2810), gld |-> Quote(24690)]

InitOverlap ==
    /\ InitHist
    /\ InitSpotIdle
    /\ spotPriceCache = SeedCache
    /\ InitCal
    /\ supabaseAvailable = TRUE

NextOverlap ==
    \/ \E c \in Calls, args \in GoodSpotArgs :
          CalStart(c, args.goldSpot, args.silverSpot)
    \/ \E c \in Calls : CalQuotes(c, BothQuotes)
    \/ \E c \in Calls : CalUpsertDone(c, TRUE, "ok")
    \/ EndTurn

SpecOverlap == InitOverlap /\ [][NextOverlap]_vars

----------------------------------------------------------------------------
(* SpecSpot: GET /api/spot-prices requests, overlapping, over time *)

InitSpot ==
    /\ InitHist
    /\ InitSpotIdle
    /\ spotPriceCache = SeedCache
    /\ InitCal
    /\ supabaseAvailable = TRUE

NextSpot ==
    \/ \E r \in Requests : SpotStart(r)
    \/ \E r \in Requests, ok \in BOOLEAN : FetchResolved(r, ok)
    \/ \E r \in Requests : FetchRejected(r)
    \/ \E r \in Requests : FetchTimedOut(r)
    \/ \E r \in Requests, prices \in UpstreamBodies : JsonResolved(r, prices)
    \/ \E r \in Requests : JsonRejected(r)
    \/ \E outcome \in SimpleOutcomes : SpotPricesSimple(outcome)
    \/ Tick
    \/ EndTurn

SpecSpot == InitSpot /\ [][NextSpot]_vars

\* One request of the caching handler at a time, with time passing, timers
\* that fire when they are due, and an upstream that is free never to
\* complete a call: no fairness on the steps that are the upstream's.
SpotStep(r) ==
    \/ SpotStart(r)
    \/ \E ok \in BOOLEAN : FetchResolved(r, ok)
    \/ FetchRejected(r)
    \/ FetchTimedOut(r)
    \/ \E prices \in UpstreamBodies : JsonResolved(r, prices)
    \/ JsonRejected(r)

NextSpotLive == SpotStep(1) \/ Tick \/ EndTurn

TimersFire ==
    /\ SF_vars(Tick)
    /\ SF_vars(FetchTimedOut(1))
    /\ WF_vars(EndTurn)

SpecSpotLive == InitSpot /\ [][NextSpotLive]_vars /\ TimersFire

----------------------------------------------------------------------------
(* Spec: the historical tables with their loader and the historical        *)
(* queries.  The spot cache, which the resolver reads in its last tier, is *)
(* the seed or a cache a spot request has filled (a state SpecSpot         *)
(* reaches).                                                               *)

FetchedCache ==
    [silver |-> Num(3120), gold |-> Num(271000), timestamp |-> Num(TickMs)]

Init ==
    /\ InitHist
    /\ InitSpotIdle
    /\ spotPriceCache \in {SeedCache, FetchedCache}
    /\ InitCal
    /\ supabaseAvailable = TRUE

Next ==
    \/ LoadStart
    \/ GoldFetchThrows
    \/ GoldNotOk
    \/ \E goldData \in GoldFeeds : GoldLoaded(goldData)
    \/ RatioUnavailable
    \/ \E lines \in CsvTexts : RatioLoaded(lines)
    \/ \E date \in QueryDates, metal \in Metals :
          HistoricalSpot(DateStr(date), Str(metal))
    \/ Health
    \/ EndTurn

Spec == Init /\ [][Next]_vars

----------------------------------------------------------------------------
(* SpecRequests: the startup load of the historical tables, the historical *)
(* requests, GET and POST, with whatever parameters, and the OCR requests. *)

NextRequests ==
    \/ GoldFetchThrows
    \/ GoldNotOk
    \/ \E goldData \in GoldFeeds : GoldLoaded(goldData)
    \/ RatioUnavailable
    \/ \E lines \in CsvTexts : RatioLoaded(lines)
    \/ \E date \in DateParams, metal \in MetalParams :
          HistoricalSpot(date, metal)
    \/ \E dates \in BulkDates, metal \in MetalParams :
          HistoricalSpotBulk(dates, metal)
    \/ \E endpoint \in OcrEndpoints, upload \in Uploads,
          vision \in VisionOutcomes :
          Ocr(endpoint, upload, vision)
    \/ EndTurn

SpecRequests == Init /\ [][NextRequests]_vars

----------------------------------------------------------------------------
(* Terms the properties are stated in: distances in days, and rounding to  *)
(* two decimals as an inequality.                                          *)

DaysApart(a, b) == Abs(a - b)

\* The keys of a table at most 30 days from day d.
KeysWithin30(table, d) == {k \in DOMAIN table : DaysApart(k, d) <= 30}

\* The keys of a table that no other key is nearer to day d than.
ClosestKeys(table, d) ==
    {k \in DOMAIN table :
        \A j \in DOMAIN table : DaysApart(k, d) <= DaysApart(j, d)}

\* p is g / r rounded to two decimals: a number at most half a hundredth
\* from the quotient (all three in hundredths), and NaN when g is no number.
IsQuotientRounded(p, g, r) ==
    IF g.t = "num" /\ r.t = "num"
    THEN p.t = "num" /\ 2 * Abs(p.v * r.v - 100 * g.v) <= r.v
    ELSE p.t = "nan"

\* The step just taken answered GET /api/historical-spot for this metal.
HistAnswer(metal) == res.op = "historical-spot" /\ res.metal = metal

----------------------------------------------------------------------------
(* Properties of the historical price resolver (under Spec) *)

\* C1: for every date that has a gold record and a ratio record, the silver
\* answer is tagged exact and its price is gold[d] / ratio[d] rounded to two
\* decimals.
C1_SilverExact ==
    (/\ HistAnswer("silver")
     /\ res.date \in DOMAIN historicalGoldPrices
     /\ res.date \in DOMAIN historicalGoldSilverRatio)
    => /\ res.source = "exact"
       /\ IsQuotientRounded(res.price, historicalGoldPrices[res.date],
                            historicalGoldSilverRatio[res.date])

\* C2: for every date that has a record in the gold table, the gold answer
\* is tagged exact and its price is the table value.
C2_GoldExact ==
    (HistAnswer("gold") /\ res.date \in DOMAIN historicalGoldPrices)
    => /\ res.source = "exact"
       /\ res.price = historicalGoldPrices[res.date]

\* C3: findNearestValue returns only entries of the table at most 30 days
\* from the target, returns one when an entry is 30 days away or nearer, and
\* returns nothing when the table is empty or every entry is 31 or more
\* days away.
C3_NearestWithin30Days ==
    \A table \in {historicalGoldPrices, historicalGoldSilverRatio} :
        \A target \in QueryDates :
            LET nearest == findNearestValue(table, target)
            IN  /\ nearest.found
                   => /\ nearest.date \in DOMAIN table
                      /\ DaysApart(nearest.date, target) <= 30
                      /\ nearest.value = table[nearest.date]
                /\ (\E k \in DOMAIN table : DaysApart(k, target) <= 30)
                   => nearest.found
                /\ (\A k \in DOMAIN table : DaysApart(k, target) >= 31)
                   => ~nearest.found

\* C3 witness: with a record exactly 30 days from one target and 31 days
\* from another, the first lookup returns it and the second returns nothing.
C3_Witness ==
    \E a, b \in QueryDates :
        /\ findNearestValue(historicalGoldPrices, a).found
        /\ DaysApart(findNearestValue(historicalGoldPrices, a).date, a) = 30
        /\ historicalGoldPrices # EmptyObj
        /\ ~findNearestValue(historicalGoldPrices, b).found

\* C4: for gold and a date without a gold record but with one within 30
\* days, the answer is tagged nearest, names a closest gold record in its
\* note and carries that record's price.
C4_GoldNearest ==
    (/\ HistAnswer("gold")
     /\ res.date \notin DOMAIN historicalGoldPrices
     /\ KeysWithin30(historicalGoldPrices, res.date) # {})
    => /\ res.source = "nearest"
       /\ res.noteDate \in ClosestKeys(historicalGoldPrices, res.date)
       /\ res.price = historicalGoldPrices[res.noteDate]

\* C4 witness: a gold answer for a date without a record, taken from the
\* closer of two records.
C4_Witness ==
    /\ HistAnswer("gold")
    /\ res.date \notin DOMAIN historicalGoldPrices
    /\ Cardinality(DOMAIN historicalGoldPrices) = 2
    /\ res.source = "nearest"
    /\ res.noteDate = 30
    /\ res.date = 60

\* C5: for silver and a date with a gold record but no ratio record, the
\* price is gold[d] over the nearest ratio within 30 days, tagged
\* interpolated, or gold[d] / 80 tagged estimated when no ratio is within 30
\* days; rounded to two decimals either way.
C5_SilverGoldExactRatioNearest ==
    (/\ HistAnswer("silver")
     /\ res.date \in DOMAIN historicalGoldPrices
     /\ res.date \notin DOMAIN historicalGoldSilverRatio)
    => IF KeysWithin30(historicalGoldSilverRatio, res.date) # {}
       THEN /\ res.source = "interpolated"
            /\ \E k \in ClosestKeys(historicalGoldSilverRatio, res.date) :
                   IsQuotientRounded(res.price, historicalGoldPrices[res.date],
                                     historicalGoldSilverRatio[k])
       ELSE /\ res.source = "estimated"
            /\ IsQuotientRounded(res.price, historicalGoldPrices[res.date],
                                 Num(80 * 100))

\* C6: for silver and a date without a gold record but with one within 30
\* days, the answer is tagged interpolated and its price is the closest gold
\* record's price over r, rounded to two decimals, r being the closest ratio
\* within 30 days of the date, or 80 when there is none.
C6_SilverNearestGold ==
    (/\ HistAnswer("silver")
     /\ res.date \notin DOMAIN historicalGoldPrices
     /\ KeysWithin30(historicalGoldPrices, res.date) # {})
    => /\ res.source = "interpolated"
       /\ res.noteDate \in ClosestKeys(historicalGoldPrices, res.date)
       /\ IF KeysWithin30(historicalGoldSilverRatio, res.date) # {}
          THEN \E k \in ClosestKeys(historicalGoldSilverRatio, res.date) :
                   IsQuotientRounded(res.price,
                                     historicalGoldPrices[res.noteDate],
                                     historicalGoldSilverRatio[k])
          ELSE IsQuotientRounded(res.price,
                                 historicalGoldPrices[res.noteDate],
                                 Num(80 * 100))

\* C6 witness: such an answer whose ratio is the closer of two ratio
\* records and not the one on the matched gold record's date.
C6_Witness ==
    /\ HistAnswer("silver")
    /\ res.date = 60
    /\ res.source = "interpolated"
    /\ res.noteDate = 30
    /\ DOMAIN historicalGoldSilverRatio = {30, 61}
    /\ historicalGoldSilverRatio[30] # historicalGoldSilverRatio[61]
    /\ historicalGoldPrices[30].t = "num"

\* C6 second case: no ratio within 30 days of the date, so 80 is used.
C6_WitnessDefaultRatio ==
    /\ HistAnswer("silver")
    /\ res.date = 15
    /\ res.source = "interpolated"
    /\ DOMAIN historicalGoldSilverRatio = {61}

\* C7: every answer has a numeric price; it is tagged fallback exactly when
\* no gold record lies within 30 days of the date, and then carries the spot
\* cache's value for the metal.
C7_AlwaysANumericPrice ==
    \A metal \in Metals :
        HistAnswer(metal)
        => /\ IsNumber(res.price)
           /\ res.source = "fallback"
              <=> KeysWithin30(historicalGoldPrices, res.date) = {}
           /\ res.source = "fallback"
              => res.price = (IF metal = "silver" THEN spotPriceCache.silver
                              ELSE spotPriceCache.gold)

\* The part of C7 that does not depend on the values the loader stored.
C7_FallbackIffNoGoldNear ==
    \A metal \in Metals :
        HistAnswer(metal)
        => /\ res.source = "fallback"
              <=> KeysWithin30(historicalGoldPrices, res.date) = {}
           /\ res.source = "fallback"
              => res.price = (IF metal = "silver" THEN spotPriceCache.silver
                              ELSE spotPriceCache.gold)

----------------------------------------------------------------------------
(* Properties of GET /api/spot-prices (under SpecSpot) *)

FiveMinutesMs == 5 * 60 * 1000

\* The cache has a timestamp less than five minutes before the time at.
YoungerThanFiveMinutes(at) ==
    /\ spotPriceCache.timestamp.t = "num"
    /\ at - spotPriceCache.timestamp.v < FiveMinutesMs

\* The step is the start of request r: r was idle and has now answered or
\* issued its fetch.
StartsRequest(r) ==
    /\ spotPc[r] = "idle"
    /\ res.op = "none"
    /\ \/ spotPc'[r] = "fetch"
       \/ res'.op = "spot-prices" /\ res'.req = r

\* An upstream body carries a usable silver and a usable gold price.
BothPresent(body) == Truthy(body.silver) /\ Truthy(body.gold)

\* The upstream call gave nothing usable: it failed, timed out, was not ok,
\* was not JSON, or its body lacks silver or gold.
UpstreamFailed(outcome) ==
    \/ outcome.kind \in {"rejected", "timeout", "not ok", "not json"}
    \/ outcome.kind = "body" /\ ~BothPresent(outcome.body)

\* C8: a request is answered from the cache, with cached=true and without a
\* fetch, exactly when the cache has a timestamp less than five minutes old;
\* with the seed (no timestamp) or an age of five minutes or more it issues
\* one upstream fetch and does not answer yet.
C8_CachedIffYoungerThanFiveMinutes ==
    [][\A r \in Requests :
        StartsRequest(r)
        => IF YoungerThanFiveMinutes(now)
           THEN /\ res'.op = "spot-prices"
                /\ res'.req = r
                /\ res'.cached = "true"
                /\ res'.silver = spotPriceCache.silver
                /\ res'.gold = spotPriceCache.gold
                /\ res'.upstream.kind = "not called"
                /\ fetches'[r] = 0
                /\ spotPc'[r] = "idle"
           ELSE /\ res'.op = "none"
                /\ spotPc'[r] = "fetch"
                /\ fetches'[r] = 1]_vars

\* C8 witness: a request is answered from the cache while another one, which
\* found the cache stale, has its fetch under way.
C8_Witness ==
    /\ res.op = "spot-prices"
    /\ res.cached = "true"
    /\ res.upstream.kind = "not called"
    /\ \E r \in Requests : spotPc[r] = "fetch" /\ fetches[r] = 1

\* C9 as claimed: on an upstream body with both prices the cache becomes
\* those prices with the current time as timestamp, and the answer carries
\* them with cached=false.
C9_FreshAnswerAsClaimed ==
    (/\ res.op = "spot-prices"
     /\ res.upstream.kind = "body"
     /\ BothPresent(res.upstream.body))
    => /\ spotPriceCache =
              [silver |-> res.upstream.body.silver,
               gold |-> res.upstream.body.gold,
               timestamp |-> Num(now)]
       /\ res.silver = res.upstream.body.silver
       /\ res.gold = res.upstream.body.gold
       /\ res.cached = "false"

\* C9 amended: on an upstream body with both prices (non-zero) the cache
\* becomes those prices with the time the request started as timestamp, and
\* the answer carries them with no cached field and no note.
C9_FreshAnswer ==
    (/\ res.op = "spot-prices"
     /\ res.upstream.kind = "body"
     /\ BothPresent(res.upstream.body))
    => /\ spotPriceCache =
              [silver |-> res.upstream.body.silver,
               gold |-> res.upstream.body.gold,
               timestamp |-> Num(spotNow[res.req])]
       /\ res.silver = res.upstream.body.silver
       /\ res.gold = res.upstream.body.gold
       /\ res.cached = "absent"
       /\ res.note = "none"
       /\ res.success

\* C9 witness: a fresh answer sent after the clock has moved on since the
\* request started.
C9_Witness ==
    /\ res.op = "spot-prices"
    /\ res.upstream.kind = "body"
    /\ BothPresent(res.upstream.body)
    /\ res.cached = "absent"
    /\ spotNow[res.req] < now
    /\ spotPriceCache.timestamp = Num(spotNow[res.req])

\* C10, in a state: an answer after a failed upstream call carries the cache
\* as it is, cached=true and a note, after exactly one fetch of the request;
\* a timeout answer comes five seconds or more after the request started.
C10_FallbackAnswer ==
    (res.op = "spot-prices" /\ UpstreamFailed(res.upstream))
    => /\ res.success
       /\ res.status = 200
       /\ res.cached = "true"
       /\ res.note # "none"
       /\ res.silver = spotPriceCache.silver
       /\ res.gold = spotPriceCache.gold
       /\ fetches[res.req] = 1
       /\ spotPc[res.req] = "idle"
       /\ res.upstream.kind = "timeout" => now - spotNow[res.req] >= 5000

\* C10, in a step: a failed upstream call leaves the cache unchanged, the
\* cache changes only with an answer from a body with both prices, and a
\* request issues a fetch only when it starts.
C10_FallbackStep ==
    /\ (res'.op = "spot-prices" /\ UpstreamFailed(res'.upstream))
       => spotPriceCache' = spotPriceCache
    /\ spotPriceCache' # spotPriceCache
       => /\ res'.op = "spot-prices"
          /\ res'.upstream.kind = "body"
          /\ BothPresent(res'.upstream.body)
          /\ res'.cached = "absent"
    /\ \A r \in Requests :
          /\ fetches'[r] <= 1
          /\ fetches'[r] > fetches[r] => spotPc[r] = "idle"

\* C10: when the upstream fetch fails, times out or gives a body lacking gold
\* or silver, the request answers with the cached (or seed) values,
\* cached=true and a note, leaves the cache unchanged and fetches no second
\* time; only a successful fetch changes the cache.
C10_FailureAnswersFromCache ==
    []C10_FallbackAnswer /\ [][C10_FallbackStep]_vars

\* C10 witness: after a timeout a request has answered with the prices an
\* earlier request had put into the cache.
C10_Witness ==
    /\ res.op = "spot-prices"
    /\ res.upstream.kind = "timeout"
    /\ res.cached = "true"
    /\ spotPriceCache.timestamp.t = "num"
    /\ res.silver = spotPriceCache.silver
    /\ res.silver # SeedCache.silver

----------------------------------------------------------------------------
(* Properties of both GET /api/spot-prices handlers (under SpecSpot) *)

\* The upstream call itself failed: the fetch rejected or timed out, the
\* status was not ok, or the body was not JSON.
UpstreamCallFailed(outcome) ==
    outcome.kind \in {"rejected", "timeout", "not ok", "not json"}

\* C11: whenever the upstream price API fails, GET /api/spot-prices answers
\* status 200 and success:true with the cached or default silver and gold
\* values and a note; it never answers success:false or an error status.
C11_DegradesOnUpstreamFailure ==
    (/\ res.op \in {"spot-prices", "spot-prices-simple"}
     /\ UpstreamCallFailed(res.upstream))
    => /\ res.status = 200
       /\ res.success
       /\ res.note # "none"
       /\ res.silver \in {spotPriceCache.silver, SeedCache.silver}
       /\ res.gold \in {spotPriceCache.gold, SeedCache.gold}

\* C11 for the caching handler of lines 811-873 alone.
C11_CachingHandlerDegrades ==
    (res.op = "spot-prices" /\ UpstreamCallFailed(res.upstream))
    => /\ res.status = 200
       /\ res.success
       /\ res.note # "none"
       /\ res.silver = spotPriceCache.silver
       /\ res.gold = spotPriceCache.gold

----------------------------------------------------------------------------
(* Properties of calibrateRatios (under SpecCal) *)

\* The quotes of a call did not arrive, or lack SLV or GLD.
QuotesUnavailable(quotes) ==
    IF quotes = Undefined THEN TRUE
    ELSE quotes.slv = Null \/ quotes.gld = Null

\* The step ends call c.
CalReturns(c) ==
    /\ cal[c].pc # "idle"
    /\ res'.op = "calibrateRatios"
    /\ res'.call = c

\* C12, in a state: a call whose quotes lack SLV or GLD does not go on to
\* the storage write.
C12_NoWriteUnderWay ==
    \A c \in Calls :
        cal[c].pc = "upsert" => ~QuotesUnavailable(cal[c].quotes)

\* C12, in a step: the step in which the quotes turn out unavailable ends
\* the call with null, and changes neither the cache nor the table; the call
\* has changed neither before.
C12_NullStep ==
    \A c \in Calls :
        (CalReturns(c) /\ QuotesUnavailable(res'.locals.quotes))
        => /\ res'.value = Null
           /\ cal[c].pc = "quotes"
           /\ ratioCache' = ratioCache
           /\ etfRatios' = etfRatios
           /\ ~res'.locals.cacheWritten
           /\ ~res'.locals.rowWritten

\* C12: calibrateRatios returns null whenever the SLV quote or the GLD quote
\* is unavailable, and then the in-memory ratio cache is unchanged and no
\* record is written to storage.
C12_NullWithoutQuotes ==
    []C12_NoWriteUnderWay /\ [][C12_NullStep]_vars

\* C12 witness: a call returned null for a missing GLD quote while the cache
\* and the table hold an earlier calibration.
C12_Witness ==
    /\ res.op = "calibrateRatios"
    /\ res.value = Null
    /\ res.locals.quotes # Undefined
    /\ res.locals.quotes.slv # Null
    /\ res.locals.quotes.gld = Null
    /\ ratioCache.date # NoDate
    /\ etfRatios # {}

\* The value the claims give a completed calibration: the two quotients and
\* the two ETF prices.
Calibrated(quotes, goldSpot, silverSpot) ==
    [slvRatio |-> Quot(quotes.slv.price, silverSpot),
     gldRatio |-> Quot(quotes.gld.price, goldSpot),
     slvPrice |-> quotes.slv.price,
     gldPrice |-> quotes.gld.price]

\* C13, in a state: a call that got both quotes returns the two ratios and
\* the two ETF prices, never null.
C13_ReturnsRatios ==
    (res.op = "calibrateRatios" /\ ~QuotesUnavailable(res.locals.quotes))
    => res.value = Calibrated(res.locals.quotes, res.locals.goldSpot,
                              res.locals.silverSpot)

\* C13, in a step: the step in which both quotes arrive sets the cache to
\* today's date with the two ratios.
C13_CacheStep ==
    \A c \in Calls :
        (/\ cal[c].pc = "quotes"
         /\ cal'[c].pc = "upsert" \/ CalReturns(c)
         /\ LET quotes == IF CalReturns(c) THEN res'.locals.quotes
                          ELSE cal'[c].quotes
            IN  ~QuotesUnavailable(quotes))
        => LET quotes == IF CalReturns(c) THEN res'.locals.quotes
                         ELSE cal'[c].quotes
               value == Calibrated(quotes, cal[c].goldSpot, cal[c].silverSpot)
           IN  ratioCache' = [date |-> calDay, slvRatio |-> value.slvRatio,
                              gldRatio |-> value.gldRatio]

\* C13: with both ETF quotes available calibrateRatios returns
\* slvRatio = slvPrice / silverSpot and gldRatio = gldPrice / goldSpot with
\* the two ETF prices and sets the cache to today's date with these ratios,
\* also when the storage write fails: the result is never null then.
C13_CalibratesDespiteStorage ==
    []C13_ReturnsRatios /\ [][C13_CacheStep]_vars

\* C13 except where the storage write rejects or a spot price is not a
\* number: the value returned is the one the claim gives.
C13_ReturnsRatiosUnlessThrown ==
    (/\ res.op = "calibrateRatios"
     /\ ~QuotesUnavailable(res.locals.quotes)
     /\ res.why \notin {"upsert threw", "log threw"})
    => res.value = Calibrated(res.locals.quotes, res.locals.goldSpot,
                              res.locals.silverSpot)

\* A positive (finite, non-zero) number.
PositiveNum(x) == x.t = "num" /\ x.v > 0

\* C14, in a state: every stored row has positive ETF prices and spot prices
\* and holds their quotients.
C14_RowsFromPositiveOperands ==
    \A row \in etfRatios :
        /\ PositiveNum(row.slv_price) /\ PositiveNum(row.silver_spot)
        /\ PositiveNum(row.gld_price) /\ PositiveNum(row.gold_spot)
        /\ row.slv_ratio = Quot(row.slv_price, row.silver_spot)
        /\ row.gld_ratio = Quot(row.gld_price, row.gold_spot)

\* C14, in a step: a step that writes ratios to the cache is the step of a
\* call with positive ETF prices and spot prices, and the ratios are their
\* quotients.
C14_CacheFromPositiveOperands ==
    (ratioCache' # ratioCache /\ ratioCache'.date # NoDate)
    => \E c \in Calls :
          LET l == IF CalReturns(c) THEN res'.locals ELSE cal'[c]
          IN  /\ cal[c].pc = "quotes"
              /\ PositiveNum(l.slvPrice) /\ PositiveNum(l.silverSpot)
              /\ PositiveNum(l.gldPrice) /\ PositiveNum(l.goldSpot)
              /\ ratioCache'.slvRatio = Quot(l.slvPrice, l.silverSpot)
              /\ ratioCache'.gldRatio = Quot(l.gldPrice, l.goldSpot)

\* C14: every ratio that calibrateRatios writes to the cache or to storage
\* is etfPrice / spotPrice of an ETF price and a spot price that are both
\* positive; none comes from a zero, negative or missing operand.
C14_RatiosFromPositiveOperands ==
    []C14_RowsFromPositiveOperands /\ [][C14_CacheFromPositiveOperands]_vars

----------------------------------------------------------------------------
(* Properties of the stored calibrations and of the lookups (under         *)
(* SpecRatio)                                                              *)

\* C15, in a state: no two stored rows have the same date.
C15_OneRowPerDate ==
    \A r1, r2 \in etfRatios : r1.date = r2.date => r1 = r2

\* C15, in a step: a step that changes the table is the write of a call; it
\* leaves the rows of other dates alone, and the row of the call's date
\* holds the values of that call.
C15_UpsertStep ==
    etfRatios' # etfRatios
    => \E c \in Calls :
          /\ cal[c].pc = "upsert"
          /\ {r \in etfRatios' : r.date # cal[c].today}
                = {r \in etfRatios : r.date # cal[c].today}
          /\ \A r \in etfRatios' :
                r.date = cal[c].today
                => /\ r.slv_ratio = JsonNumber(cal[c].slvRatio)
                   /\ r.gld_ratio = JsonNumber(cal[c].gldRatio)
                   /\ r.gold_spot = JsonNumber(cal[c].goldSpot)
                   /\ r.silver_spot = JsonNumber(cal[c].silverSpot)
          /\ \E r \in etfRatios' : r.date = cal[c].today

\* C15: storage holds at most one calibration record per date; a second run
\* on the same day overwrites that day's record with the later run's values
\* and adds no second record.
C15_OneRecordPerDate ==
    []C15_OneRowPerDate /\ [][C15_UpsertStep]_vars

\* C15 witness: a second run of the second day has replaced that day's row,
\* next to the row of the first day.
C15_Witness ==
    /\ res.op = "calibrateRatios"
    /\ res.locals.rowReplaced
    /\ res.locals.today = 1
    /\ \E r \in etfRatios : r.date = 0
    /\ \E r \in etfRatios :
          r.date = 1 /\ r.gold_spot = JsonNumber(res.locals.goldSpot)
    /\ Cardinality(etfRatios) = 2

\* A stored ratio as a lookup reads it: a number as it is, a null (which
\* JSON has for NaN and Infinity) as NaN.
AsRead(x) == IF x.t = "num" THEN x ELSE NaN

\* The stored rows dated on or before the day d, and the most recent ones
\* among them.
StoredUpTo(d) == {r \in etfRatios : r.date <= d}

MostRecentUpTo(d) ==
    {r \in StoredUpTo(d) : \A q \in StoredUpTo(d) : q.date <= r.date}

\* C16: getRatioForDate(d) returns the cached ratios when d is the cached
\* date; otherwise the ratios of the most recent stored record dated on or
\* before d; otherwise (no such record, storage unavailable or failing) the
\* default ratios.  It never returns the ratios of a calibration dated
\* after d.
C16_RatioInEffect ==
    res.op = "getRatioForDate"
    => IF ~res.awaited /\ ratioCache.date = res.day
       THEN res.value = [slv_ratio |-> ratioCache.slvRatio,
                         gld_ratio |-> ratioCache.gldRatio]
       ELSE IF supabaseAvailable /\ res.queryOk /\ StoredUpTo(res.day) # {}
       THEN \E r \in MostRecentUpTo(res.day) :
               res.value = [slv_ratio |-> AsRead(r.slv_ratio),
                            gld_ratio |-> AsRead(r.gld_ratio)]
       ELSE res.value = [slv_ratio |-> DEFAULT_SLV_RATIO,
                         gld_ratio |-> DEFAULT_GLD_RATIO]

\* C16 witness: a lookup for the first day, made on the second day with the
\* second day's calibration in the cache and in the table, has returned the
\* different ratios of the first day's record.
C16_Witness ==
    /\ res.op = "getRatioForDate"
    /\ res.day = 0
    /\ res.awaited
    /\ ratioCache.date = 1
    /\ \E r0, r1 \in etfRatios :
          /\ r0.date = 0
          /\ r1.date = 1
          /\ r0.slv_ratio # r1.slv_ratio
          /\ r0.slv_ratio.t = "num"
          /\ res.value.slv_ratio = r0.slv_ratio

\* C16 witness of the last case: a lookup for the first day has returned the
\* defaults while the only record is the one of the second day.
C16_WitnessDefaults ==
    /\ res.op = "getRatioForDate"
    /\ res.day = 0
    /\ res.awaited
    /\ res.queryOk
    /\ etfRatios # {}
    /\ \A r \in etfRatios : r.date = 1
    /\ res.value = [slv_ratio |-> DEFAULT_SLV_RATIO,
                    gld_ratio |-> DEFAULT_GLD_RATIO]

\* C17: needsCalibration() returns true if and only if no calibration
\* record exists for today's date.
C17_NeedsIffNoRecordToday ==
    res.op = "needsCalibration"
    => (res.value <=> ~(\E r \in etfRatios : r.date = res.today))

\* C17 with the cached calibration counted as a record of its date.
C17_NeedsIffNoRecordOrCacheToday ==
    res.op = "needsCalibration"
    => (res.value <=> ~(\/ \E r \in etfRatios : r.date = res.today
                        \/ ratioCache.date = res.today))

----------------------------------------------------------------------------
(* GET /api/historical-spot and POST /api/historical-spot/bulk *)

\* The request names gold or silver, in whatever case.
NamesGoldOrSilver(metal) == metal.t = "str" /\ ToLowerCase(metal.s) \in Metals

\* The date of a GET request is missing or does not match the pattern.
BadDate(date) == date = Undefined \/ ~MatchesDatePattern(date)

\* The metal is given and is not gold or silver.
BadMetal(metal) == metal # Undefined /\ ~NamesGoldOrSilver(metal)

\* What a GET answer has to be for its request.
GetAnswerRight(date, metal) ==
    IF BadDate(date) \/ BadMetal(metal)
    THEN /\ res.status = 400
         /\ ~res.success
         /\ res.price = Undefined
    ELSE LET metalType == IF metal = Undefined THEN "silver"
                          ELSE ToLowerCase(metal.s)
             result == getHistoricalPrice(date.v, metalType)
         IN  /\ res.status = 200
             /\ res.success
             /\ res.date = date.v
             /\ res.metal = metalType
             /\ res.price = result.price
             /\ res.source = result.source
             /\ res.note = result.note
             /\ res.noteDate = result.noteDate

\* C18: GET /api/historical-spot answers 400 and resolves no price when the
\* date is missing or does not match the pattern, or when the metal is given
\* and is not gold or silver; every other request is answered with success,
\* the date, the metal (silver when omitted) and the price, source and note
\* of getHistoricalPrice.
C18_GetValidates ==
    res.op = "historical-spot"
    => GetAnswerRight(res.request.date, res.request.metal)

\* C18 for the requests whose metal is omitted or one text.
C18_GetValidatesTextMetal ==
    (res.op = "historical-spot" /\ res.request.metal.t # "array")
    => GetAnswerRight(res.request.date, res.request.metal)

\* The well-formed dates among the first 100 entries of a dates array.
DatesLookedAt(dates) ==
    {dates[i].v : i \in {j \in 1..Len(dates) :
                            j <= 100 /\ dates[j].t = "date"}}

\* A bulk request with an array of dates and a metal that is omitted or
\* names gold or silver.
BulkRequestGood(dates, metal) ==
    /\ dates.t = "array"
    /\ metal = Undefined \/ NamesGoldOrSilver(metal)

\* The prices of a bulk answer have no key but the well-formed dates among
\* the first 100 entries, so never more than 100 keys.
C19_NoOtherKey ==
    res.op = "historical-spot/bulk"
    => /\ Cardinality(DOMAIN res.prices) <= 100
       /\ res.request.dates.t # "array" => res.prices = EmptyObj
       /\ res.request.dates.t = "array"
          => DOMAIN res.prices \subseteq DatesLookedAt(res.request.dates.items)

\* The answer to a good bulk request holds, for each well-formed date among
\* the first 100 entries, the price of the single-date lookup.
C19_PriceOfEachDate ==
    (/\ res.op = "historical-spot/bulk"
     /\ BulkRequestGood(res.request.dates, res.request.metal))
    => LET metalType == IF res.request.metal = Undefined THEN "silver"
                        ELSE ToLowerCase(res.request.metal.s)
       IN  /\ res.status = 200
           /\ res.success
           /\ res.metal = metalType
           /\ DOMAIN res.prices = DatesLookedAt(res.request.dates.items)
           /\ \A date \in DOMAIN res.prices :
                 res.prices[date] = getHistoricalPrice(date, metalType).price

\* C19: POST /api/historical-spot/bulk looks only at the first 100 entries
\* of dates, skips the entries that do not match the date pattern, and
\* returns a price for each remaining date and for no other key: the result
\* never holds more than 100 prices, and each price is the one the
\* single-date lookup gives for that date and metal.
C19_BulkFirstHundred == C19_NoOtherKey /\ C19_PriceOfEachDate

\* C19 witness: with the tables loaded, a request of 101 entries whose
\* hundredth is malformed and whose last is well-formed has been answered
\* with the prices of the 99 dates before them.
C19_Witness ==
    /\ res.op = "historical-spot/bulk"
    /\ res.success
    /\ historicalDataLoaded
    /\ historicalGoldPrices # EmptyObj
    /\ Len(res.request.dates.items) = 101
    /\ res.request.dates.items[100].t = "str"
    /\ res.request.dates.items[101] = DateStr(60)
    /\ 60 \notin DOMAIN res.prices
    /\ Cardinality(DOMAIN res.prices) = 99

\* C19 witness of the limit reached: a hundred prices for 101 well-formed
\* dates.
C19_WitnessHundred ==
    /\ res.op = "historical-spot/bulk"
    /\ res.success
    /\ Len(res.request.dates.items) = 101
    /\ \A i \in 1..101 : res.request.dates.items[i].t = "date"
    /\ Cardinality(DOMAIN res.prices) = 100

\* The answer refuses the request: status 400 and no price in it.
Refused ==
    /\ res.status = 400
    /\ ~res.success
    /\ res.price = Undefined
    /\ res.prices = EmptyObj

\* C20: a historical-price request that names a metal other than gold or
\* silver is answered with 400 and gets no price, on POST
\* /api/historical-spot/bulk as on GET /api/historical-spot.
C20_OtherMetalRefused ==
    (/\ res.op \in {"historical-spot", "historical-spot/bulk"}
     /\ BadMetal(res.request.metal))
    => Refused

\* C20 for GET /api/historical-spot and a metal given as one text.
C20_GetRefusesOtherMetal ==
    (/\ res.op = "historical-spot"
     /\ BadMetal(res.request.metal)
     /\ res.request.metal.t = "str")
    => Refused

\* C20 for POST /api/historical-spot/bulk and a metal given as one text.
C20_BulkRefusesOtherMetal ==
    (/\ res.op = "historical-spot/bulk"
     /\ BadMetal(res.request.metal)
     /\ res.request.metal.t = "str")
    => Refused

----------------------------------------------------------------------------
(* The refresh of the historical tables *)

\* The entries a feed gives to an empty table.
GoldEntriesOf(goldData) == GoldForEach(EmptyObj, goldData, 1)
RatioEntriesOf(lines) == RatioLoop(EmptyObj, lines, 2)

\* C21: a refresh replaces the tables in bulk: after a load of a gold feed
\* the gold table holds exactly the entries of that feed, and after a load
\* of a ratio CSV the ratio table holds exactly the entries of that CSV, so
\* an entry the latest feed no longer contains is no longer served.
C21_TablesReplacedInBulk ==
    [][/\ \A goldData \in GoldFeeds :
             GoldLoaded(goldData)
             => historicalGoldPrices' = GoldEntriesOf(goldData)
       /\ \A lines \in CsvTexts :
             RatioLoaded(lines)
             => historicalGoldSilverRatio' = RatioEntriesOf(lines)]_vars

\* What the loader does instead: it assigns the entries of the feed into
\* the table it has, so every entry of an earlier feed that the latest one
\* does not overwrite is kept.
C21_TablesMerged ==
    [][/\ \A d \in DOMAIN historicalGoldPrices :
             d \in DOMAIN historicalGoldPrices'
       /\ \A d \in DOMAIN historicalGoldSilverRatio :
             d \in DOMAIN historicalGoldSilverRatio'
       /\ \A goldData \in GoldFeeds :
             GoldLoaded(goldData)
             => \A d \in DOMAIN historicalGoldPrices' :
                   historicalGoldPrices'[d] =
                       IF d \in DOMAIN GoldEntriesOf(goldData)
                       THEN GoldEntriesOf(goldData)[d]
                       ELSE historicalGoldPrices[d]]_vars

----------------------------------------------------------------------------
(* Error responses *)

\* The error texts the handlers and the upload filter spell out.
FixedErrorTexts ==
    {"No image provided",
     "Could not analyze receipt. Please try again or enter manually.",
     "Could not analyze stack photo. Please try again.",
     "Date parameter required", "Invalid date format",
     "Metal must be silver or gold", "dates array required",
     "Invalid file type. Allowed: JPEG, PNG, WebP, HEIC",
     "An error occurred"}

IsResponse == res.op \in OcrEndpoints \cup {"historical-spot", "historical-spot/bulk"}

\* C22: no HTTP error response contains internal error detail: the error
\* text of every failure response is one of the fixed generic or validation
\* strings, when the vision call or the JSON parse fails in an OCR request
\* (500 with the could-not-analyze message) and when an exception reaches
\* the global error handler.
C22_NoInternalDetail ==
    /\ (IsResponse /\ ~res.success) => res.error \in FixedErrorTexts
    /\ (/\ res.op \in OcrEndpoints
        /\ res.request.upload = "file"
        /\ res.request.vision \in {"rejects", "not text", "not json"})
       => /\ res.status = 500
          /\ res.error = CouldNotAnalyze(res.op)

\* C22 for the responses the handlers send themselves: the OCR part of the
\* claim, and every 400.
C22_HandlersSendFixedTexts ==
    /\ (IsResponse /\ ~res.success /\ res.error = TypeErrorLowerCase.message)
       => res.request.metal.t = "array"
    /\ (IsResponse /\ ~res.success /\ res.error # TypeErrorLowerCase.message)
       => res.error \in FixedErrorTexts
    /\ (/\ res.op \in OcrEndpoints
        /\ res.request.upload = "file"
        /\ res.request.vision \in {"rejects", "not text", "not json"})
       => /\ res.status = 500
          /\ res.error = CouldNotAnalyze(res.op)

----------------------------------------------------------------------------
(* Termination of GET /api/spot-prices *)

\* The last time of the clock of the model: a request started then sees no
\* more time pass.
ClockEnd == (MaxTicks + 1) * TickMs

\* Request 1 is under way, started while the clock still runs.
UnderWay(stage) == spotPc[1] = stage /\ spotNow[1] < ClockEnd

Answered == spotPc[1] = "idle"

\* C23: every GET /api/spot-prices request eventually sends its response:
\* an upstream call that does not complete, at any stage of the call, the
\* reading of the response body included, is cut off by the 5-second
\* timeout and the request then answers from the cache.
C23_EveryRequestAnswered ==
    /\ UnderWay("fetch") ~> Answered
    /\ UnderWay("json") ~> Answered

\* C23 for the stage the abort timer covers: a fetch that has not settled
\* is cut off and the request answered.
C23_PendingFetchCutOff == UnderWay("fetch") ~> (Answered \/ spotPc[1] = "json")

\* No timer ends the reading of the body: a request leaves that stage only
\* with a step of the upstream, the body arriving or failing to parse.
C23_BodyReadEndsWithUpstream ==
    [][(spotPc[1] = "json" /\ spotPc'[1] # "json")
       => res'.upstream.kind \in {"body", "not json"}]_vars

\* A request sends one response, with the step that ends it.
C23_OneResponse ==
    [][/\ (spotPc[1] # "idle" /\ spotPc'[1] = "idle")
          => (res'.op = "spot-prices" /\ res'.req = 1)
       /\ (spotPc[1] # "idle" /\ spotPc'[1] # "idle") => res'.op = "none"]_vars

----------------------------------------------------------------------------
(* findNearestValue: which entry *)

\* C24: when findNearestValue returns an entry, no key of the table is
\* nearer to the target date than the entry's, and of two keys equally
\* distant, one before and one after the target, the earlier is returned.
C24_NearestEarlierOnTie ==
    \A table \in {historicalGoldPrices, historicalGoldSilverRatio} :
        \A target \in QueryDates :
            LET nearest == findNearestValue(table, target)
            IN  nearest.found
                => /\ nearest.date \in DOMAIN table
                   /\ \A k \in DOMAIN table :
                         DaysApart(nearest.date, target) <= DaysApart(k, target)
                   /\ \A k \in DOMAIN table :
                         DaysApart(k, target) = DaysApart(nearest.date, target)
                         => nearest.date <= k

\* C24 witness: the gold table holds records 15 days before and 15 days
\* after a target, and the lookup returns the earlier one.
C24_Witness ==
    /\ {0, 30} \subseteq DOMAIN historicalGoldPrices
    /\ findNearestValue(historicalGoldPrices, 15).found
    /\ findNearestValue(historicalGoldPrices, 15).date = 0
    /\ res.op = "historical-spot"
    /\ res.date = 15
    /\ res.metal = "gold"
    /\ res.noteDate = 0

----------------------------------------------------------------------------
(* What the tables hold *)

AllPositive(table) == \A d \in DOMAIN table : PositiveNum(table[d])

\* C25: after any sequence of loads every value held in the gold price
\* table and in the gold/silver ratio table is a positive number: a record
\* or row with a missing, zero, negative or non-numeric price or ratio is
\* skipped.
C25_TablesHoldPositiveNumbers ==
    /\ AllPositive(historicalGoldPrices)
    /\ AllPositive(historicalGoldSilverRatio)

\* C25 for the ratio table, whose loop tests the parsed number.
C25_RatiosPositive == AllPositive(historicalGoldSilverRatio)

\* A skipped record or row does not stop the ones after it: every record
\* of a feed that passes the loader's test is in the table after the load.
C25_SkippingDoesNotStop ==
    [][/\ \A goldData \in GoldFeeds :
             GoldLoaded(goldData)
             => \A i \in 1..Len(goldData) :
                   (goldData[i].date # NoDate /\ Truthy(goldData[i].price))
                   => goldData[i].date \in DOMAIN historicalGoldPrices'
       /\ \A lines \in CsvTexts :
             RatioLoaded(lines)
             => \A i \in 2..Len(lines) :
                   (/\ lines[i].date # NoDate
                    /\ PositiveNum(ParseFloat(lines[i].ratio)))
                   => lines[i].date \in DOMAIN historicalGoldSilverRatio']_vars

----------------------------------------------------------------------------
(* Overlapping GET /api/spot-prices requests *)

\* C26: under any interleaving of overlapping requests that find the cache
\* stale and fetch upstream, the timestamp of the spot cache never
\* decreases: a request that started earlier and finishes later does not
\* overwrite the cache with an older timestamp than the one stored.
C26_TimestampNeverDecreases ==
    [][Truthy(spotPriceCache.timestamp)
       => /\ Truthy(spotPriceCache'.timestamp)
          /\ spotPriceCache'.timestamp.v >= spotPriceCache.timestamp.v]_vars

\* The timestamp stored is the start time of the request that stores it,
\* whatever the cache holds.
C26_StampIsStartOfWriter ==
    [][spotPriceCache' # spotPriceCache
       => \E r \in Requests :
             /\ spotPc[r] = "json"
             /\ spotPc'[r] = "idle"
             /\ spotPriceCache'.timestamp = Num(spotNow[r])]_vars

----------------------------------------------------------------------------
(* Overlapping calibrateRatios calls *)

NoCallUnderWay == \A c \in Calls : cal[c].pc = "idle"

\* C27: when calibrateRatios calls overlap on the same day and all of them
\* complete with their storage writes succeeding, the in-memory cache and
\* the persisted record of today hold the same slvRatio and gldRatio.
C27_CacheMatchesRecord ==
    NoCallUnderWay
    => \A r \in etfRatios :
          r.date = calDay
          => /\ ratioCache.date = calDay
             /\ r.slv_ratio = ratioCache.slvRatio
             /\ r.gld_ratio = ratioCache.gldRatio

\* Each write is of the call that makes it: the cache takes the ratios of
\* the call whose quotes arrive, the record those of the call whose upsert
\* is applied.
C27_EachWriteOfItsCall ==
    [][/\ ratioCache' # ratioCache
          => \E c \in Calls :
                /\ cal[c].pc = "quotes"
                /\ cal'[c].pc = "upsert"
                /\ ratioCache'.slvRatio = cal'[c].slvRatio
                /\ ratioCache'.gldRatio = cal'[c].gldRatio
       /\ etfRatios' # etfRatios
          => \E c \in Calls :
                /\ cal[c].pc = "upsert"
                /\ RatioRow(cal[c]) \in etfRatios']_vars

----------------------------------------------------------------------------
(* calibrateRatios returning null *)

ReturnedNull == res.op = "calibrateRatios" /\ res.value = Null

\* C28: whenever calibrateRatios returns null, for whatever reason, an
\* exception of the quote fetch, of the storage write or after it included,
\* the call has changed neither the in-memory ratio cache nor the persisted
\* records.
C28_NullChangesNothing ==
    ReturnedNull
    => /\ ~res.locals.cacheWritten
       /\ ~res.locals.rowWritten

\* C28 for the returns that come before the cache is written: the quote
\* fetch threw or a quote is missing.
C28_NullBeforeTheWrites ==
    (ReturnedNull /\ res.why \in {"quotes threw", "quote missing"})
    => /\ ~res.locals.cacheWritten
       /\ ~res.locals.rowWritten

----------------------------------------------------------------------------
(* Queries while a load is under way *)

\* The answer is a silver price that is a gold price of the table divided
\* by a ratio of the table; goldDate is the date of that gold price.
SilverFromBothTables ==
    /\ res.op = "historical-spot"
    /\ res.success
    /\ res.metal = "silver"
    /\ \/ res.source = "exact"
       \/ res.source = "interpolated" /\ res.note = "gold exact, ratio from"
       \/ /\ res.source = "interpolated"
          /\ res.note = "estimated from gold of"
          /\ findNearestValue(historicalGoldSilverRatio, res.date).found

GoldDateUsed ==
    IF res.note = "estimated from gold of" THEN res.noteDate ELSE res.date

\* C29: a silver price resolved while a refresh is in progress is computed
\* from a gold table and a ratio table of the same refresh generation: no
\* query combines a gold price the running refresh has already written with
\* a ratio the refresh has not yet updated.
C29_SilverOfOneGeneration ==
    (SilverFromBothTables /\ loadPc = "ratio")
    => GoldDateUsed \notin goldWritten

\* Outside a load's wait for the ratio CSV no answer is computed from a gold
\* price of a load that has not ended.
C29_OnlyBetweenTheFetches == (loadPc # "ratio") => goldWritten = {}

----------------------------------------------------------------------------
(* The flag of GET /api/health *)

\* C30: in every state reachable through startup and any sequence of
\* successful, non-OK and throwing refreshes, the historicalDataLoaded flag
\* that GET /api/health reports is true if and only if the gold table holds
\* at least one record (goldRecords > 0).
C30_LoadedIffGoldRecords ==
    /\ historicalDataLoaded <=> historicalGoldPrices # EmptyObj
    /\ res.op = "health" => (res.historicalDataLoaded <=> res.goldRecords > 0)

\* What the flag does tell: how the last load that has ended ended, true
\* for one that reached its end, false for one whose gold fetch threw (and
\* before any load has ended).
C30_FlagOfTheLastLoad ==
    [][/\ (loadPc = "ratio" /\ loadPc' = "idle") => historicalDataLoaded'
       /\ (loadPc = "gold" /\ loadPc' = "idle") => ~historicalDataLoaded'
       /\ ~(loadPc # "idle" /\ loadPc' = "idle")
          => historicalDataLoaded' = historicalDataLoaded]_vars

====
